---------------------------- MODULE Spec2Model ----------------------------
(***************************************************************************)
(* A model of magnet-url-rs (src/src/lib.rs): the Magnet record, the       *)
(* parser Magnet::new / new_no_validation, the serializer                  *)
(* impl Display for Magnet, and MagnetBuilder.                             *)
(*                                                                         *)
(* Text is modelled by TLA+ strings, taken apart character by character    *)
(* with Len, SubSeq and \o, the way the code's str methods take a &str     *)
(* apart.  A u64 is modelled by the tuple of its decimal digits, most      *)
(* significant first and without leading zeros, so that all of 0..2^64-1   *)
(* (and the overflow just above it) is representable.                      *)
(***************************************************************************)
EXTENDS Integers, Sequences, FiniteSets, TLC

VARIABLES
    pc,          \* where the run stands
    magnet_str,  \* the argument of Magnet::new
    params,      \* new_no_validation: the fragments params_str.split('&') has yet to yield
    magnet,      \* new_no_validation: `magnet`; after build(): the built record
    result,      \* what Magnet::new(magnet_str) returned
    builder,     \* MagnetBuilder: its `magnet` field
    out,         \* what to_string returned
    reparsed,    \* what Magnet::new(out) returned
    calls        \* the builder calls made so far, where a run records them

vars == <<pc, magnet_str, params, magnet, result, builder, out, reparsed, calls>>

(***************************************************************************)
(* Bounds of the model.                                                    *)
(***************************************************************************)
\* the most `&`-separated fragments an input of Magnet::new is put together from
MaxFrags == 2
\* the most trackers a builder chain adds
MaxTrackers == 2
\* the most fields and trackers of a builder's record that hold a text outside
\* PlainTexts at a time
MaxRaw == 1

\* the most setter calls a builder chain on record is made of
MaxCalls == 2

(***************************************************************************)
(* Option<T>, Result<Magnet, MagnetError>.                                 *)
(***************************************************************************)
None == [some |-> FALSE]
Some(v) == [some |-> TRUE, val |-> v]

Ok(m) == [ok |-> TRUE, val |-> m]
Err(e) == [ok |-> FALSE, err |-> e]

NotAMagnetURL == "NotAMagnetURL"

\* The value the variables hold before the code has assigned them.
Unset == [unset |-> TRUE]

(***************************************************************************)
(* The str methods the code uses.                                          *)
(***************************************************************************)
\* s[i..]: the text of s from its (i+1)-th character on
From(s, i) == SubSeq(s, i + 1, Len(s))

\* str::contains(pat), a slip for starts_with: pat anywhere in s
contains(s, pat) ==
    \E i \in 0..(Len(s) - Len(pat)) : SubSeq(s, i + 1, i + Len(pat)) = pat

\* str::starts_with(pat)
starts_with(s, pat) == Len(s) >= Len(pat) /\ SubSeq(s, 1, Len(pat)) = pat

\* str::strip_prefix(pat)
strip_prefix(s, pat) == IF starts_with(s, pat) THEN Some(From(s, Len(pat))) ELSE None

\* str::trim_start_matches(pat): every leading repetition of pat is removed
RECURSIVE trim_start_matches(_, _)
trim_start_matches(s, pat) ==
    IF starts_with(s, pat) /\ Len(pat) > 0
    THEN trim_start_matches(From(s, Len(pat)), pat)
    ELSE s

\* str::find(c): the position of the first c in s, 0 when there is none
RECURSIVE find_from(_, _, _)
find_from(s, c, i) ==
    IF i > Len(s) THEN 0
    ELSE IF SubSeq(s, i, i) = c THEN i
    ELSE find_from(s, c, i + 1)

find(s, c) == find_from(s, c, 1)

\* str::split(c), collected: the pieces of s between its c's, at least one piece
RECURSIVE split(_, _)
split(s, c) ==
    LET i == find(s, c)
    IN  IF i = 0 THEN <<s>>
        ELSE <<SubSeq(s, 1, i - 1)>> \o split(From(s, i), c)

\* str::rfind(c): the position of the last c in s, 0 when there is none
RECURSIVE rfind_from(_, _, _)
rfind_from(s, c, i) ==
    IF i < 1 THEN 0
    ELSE IF SubSeq(s, i, i) = c THEN i
    ELSE rfind_from(s, c, i - 1)

\* str::rsplit_once(c), a slip for split_once: the text before and after the last c
rsplit_once(s, c) ==
    LET i == rfind_from(s, c, Len(s))
    IN  IF i = 0 THEN None
        ELSE Some(<<SubSeq(s, 1, i - 1), From(s, i)>>)

\* str::split_once(c): the text before and after the first c
split_once(s, c) ==
    LET i == find(s, c)
    IN  IF i = 0 THEN None
        ELSE Some(<<SubSeq(s, 1, i - 1), From(s, i)>>)

(***************************************************************************)
(* u64: str::parse::<u64> and its Display.                                 *)
(***************************************************************************)
DigitChars == "0123456789"

\* char::to_digit(10): 0..9, or -1 for a character that is no decimal digit
to_digit(c) ==
    LET i == find(DigitChars, c) IN i - 1

\* u64::MAX = 18446744073709551615
U64_MAX == <<1, 8, 4, 4, 6, 7, 4, 4, 0, 7, 3, 7, 0, 9, 5, 5, 1, 6, 1, 5>>

\* a <= b for digit tuples of the same length
RECURSIVE digits_le(_, _)
digits_le(a, b) ==
    IF a = <<>> THEN TRUE
    ELSE IF Head(a) # Head(b) THEN Head(a) < Head(b)
    ELSE digits_le(Tail(a), Tail(b))

\* the value of a digit tuple: its leading zeros dropped (zero is <<0>>)
RECURSIVE normalize(_)
normalize(ds) ==
    IF Len(ds) > 1 /\ Head(ds) = 0 THEN normalize(Tail(ds)) ELSE ds

\* the overflow check by the number of digits alone
fits_u64_by_len(ds) == Len(ds) <= Len(U64_MAX)

fits_u64(ds) ==
    \/ Len(ds) < Len(U64_MAX)
    \/ Len(ds) = Len(U64_MAX) /\ digits_le(ds, U64_MAX)

\* <u64 as FromStr>::from_str: an optional `+`, then one or more decimal
\* digits whose value is at most u64::MAX; anything else is an Err
parse_u64(s) ==
    LET digits == IF starts_with(s, "+") THEN From(s, 1) ELSE s
        ds == [i \in 1..Len(digits) |-> to_digit(SubSeq(digits, i, i))]
    IN  IF Len(s) = 0 THEN None                       \* IntErrorKind::Empty
        ELSE IF Len(digits) = 0 THEN None             \* "+": InvalidDigit
        ELSE IF \E i \in 1..Len(ds) : ds[i] < 0 THEN None   \* InvalidDigit
        ELSE IF ~fits_u64(normalize(ds)) THEN None    \* PosOverflow
        ELSE Some(normalize(ds))

\* <u64 as Display>::fmt: the decimal digits
RECURSIVE fmt_u64(_)
fmt_u64(ds) ==
    IF ds = <<>> THEN ""
    ELSE SubSeq(DigitChars, Head(ds) + 1, Head(ds) + 1) \o fmt_u64(Tail(ds))

(***************************************************************************)
(* struct Magnet.                                                          *)
(***************************************************************************)
\* the record new_no_validation and MagnetBuilder::new start from
DefaultMagnet ==
    [ display_name      |-> None,
      hash_type         |-> None,
      hash              |-> None,
      length            |-> None,
      source            |-> None,
      trackers          |-> <<>>,
      search_keywords   |-> None,
      web_seed          |-> None,
      acceptable_source |-> None,
      manifest          |-> None ]

(***************************************************************************)
(* Magnet::new and new_no_validation.                                      *)
(***************************************************************************)
MAGNET_PREFIX == "magnet:?"

\* new_no_validation: let params_str = magnet_str.trim_start_matches("magnet:?")
params_str(s) == trim_start_matches(s, MAGNET_PREFIX)

\* the "xt" arm with the urn split on its last `:` instead of its first
dispatch_xt_rsplit(m, value) ==
    LET urn_part == strip_prefix(value, "urn:")
    IN  IF ~urn_part.some THEN m
        ELSE LET th == rsplit_once(urn_part.val, ":")
             IN  IF ~th.some THEN m
                 ELSE [m EXCEPT !.hash_type = Some(th.val[1]),
                                !.hash = Some(th.val[2])]

\* the "xt" arm keeping the hash type of a urn that has no further `:`
dispatch_xt_type_only(m, value) ==
    LET urn_part == strip_prefix(value, "urn:")
    IN  IF ~urn_part.some THEN m
        ELSE LET th == split_once(urn_part.val, ":")
             IN  IF ~th.some THEN [m EXCEPT !.hash_type = Some(urn_part.val)]
                 ELSE [m EXCEPT !.hash_type = Some(th.val[1]),
                                !.hash = Some(th.val[2])]

\* the "xt" arm of the match
dispatch_xt(m, value) ==
    LET urn_part == strip_prefix(value, "urn:")
    IN  IF ~urn_part.some THEN m
        ELSE LET th == split_once(urn_part.val, ":")
             IN  IF ~th.some THEN m
                 ELSE [m EXCEPT !.hash_type = Some(th.val[1]),
                                !.hash = Some(th.val[2])]

\* the "xl" arm written `magnet.length = value.parse::<u64>().ok()`: a numeral
\* that does not parse clears the length
dispatch_xl_ok(m, value) == [m EXCEPT !.length = parse_u64(value)]

\* the "xl" arm of the match
dispatch_xl(m, value) ==
    LET len == parse_u64(value)
    IN  IF len.some THEN [m EXCEPT !.length = Some(len.val)] ELSE m

\* the "tr" arm of the match
dispatch_tr(m, value) == [m EXCEPT !.trackers = Append(@, value)]

\* the body of `for param in params_str.split('&')`: one fragment dispatched
dispatch(m, param) ==
    LET kv == split_once(param, "=")
    IN  IF ~kv.some THEN m
        ELSE LET key == kv.val[1]
                 value == kv.val[2]
             IN  CASE key = "dn" -> [m EXCEPT !.display_name = Some(value)]
                   [] key = "xt" -> dispatch_xt(m, value)
                   [] key = "xl" -> dispatch_xl(m, value)
                   [] key = "tr" -> dispatch_tr(m, value)
                   [] key = "kt" -> [m EXCEPT !.search_keywords = Some(value)]
                   [] key = "ws" -> [m EXCEPT !.web_seed = Some(value)]
                   [] key = "xs" -> [m EXCEPT !.source = Some(value)]
                   [] key = "as" -> [m EXCEPT !.acceptable_source = Some(value)]
                   [] key = "mt" -> [m EXCEPT !.manifest = Some(value)]
                   [] OTHER -> m

\* the whole loop over the fragments ps, started from record m
RECURSIVE dispatch_all(_, _)
dispatch_all(m, ps) ==
    IF ps = <<>> THEN m ELSE dispatch_all(dispatch(m, Head(ps)), Tail(ps))

\* Magnet::new_no_validation
new_no_validation(s) == dispatch_all(DefaultMagnet, split(params_str(s), "&"))

\* Magnet::new
Magnet_new(s) ==
    IF ~starts_with(s, MAGNET_PREFIX) THEN Err(NotAMagnetURL)
    ELSE Ok(new_no_validation(s))

(***************************************************************************)
(* impl fmt::Display for Magnet (to_string).                               *)
(***************************************************************************)
\* the closure add_param
add_param(name, value, base) ==
    IF value.some THEN base \o "&" \o name \o "=" \o value.val ELSE base

\* the hash clause emitted on hash_type instead of hash
fmt_hash_on_type(m, base) ==
    IF m.hash_type.some
    THEN base \o "xt=urn:" \o m.hash_type.val
              \o ":" \o (IF m.hash.some THEN m.hash.val ELSE "")
    ELSE base

\* the hash clause
fmt_hash(m, base) ==
    IF m.hash.some
    THEN base \o "xt=urn:" \o (IF m.hash_type.some THEN m.hash_type.val ELSE "")
              \o ":" \o m.hash.val
    ELSE base

\* the length clause
fmt_length(m, base) ==
    IF m.length.some THEN base \o "&xl=" \o fmt_u64(m.length.val) ELSE base

\* the loop over the trackers run from the last tracker to the first
RECURSIVE fmt_trackers_rev(_, _)
fmt_trackers_rev(ts, base) ==
    IF ts = <<>> THEN base
    ELSE fmt_trackers_rev(SubSeq(ts, 1, Len(ts) - 1), base \o "&tr=" \o ts[Len(ts)])

\* the loop over the trackers
RECURSIVE fmt_trackers(_, _)
fmt_trackers(ts, base) ==
    IF ts = <<>> THEN base
    ELSE fmt_trackers(Tail(ts), base \o "&tr=" \o Head(ts))

\* to_string with the kt clause ahead of the xs clause
to_string_kt_first(m) ==
    LET s1 == fmt_hash(m, MAGNET_PREFIX)
        s2 == add_param("dn", m.display_name, s1)
        s3 == fmt_length(m, s2)
        s4 == fmt_trackers(m.trackers, s3)
        s5 == add_param("ws", m.web_seed, s4)
        s6 == add_param("kt", m.search_keywords, s5)
        s7 == add_param("xs", m.source, s6)
        s8 == add_param("as", m.acceptable_source, s7)
    IN  add_param("mt", m.manifest, s8)

\* Magnet::to_string
to_string(m) ==
    LET s1 == fmt_hash(m, MAGNET_PREFIX)
        s2 == add_param("dn", m.display_name, s1)
        s3 == fmt_length(m, s2)
        s4 == fmt_trackers(m.trackers, s3)
        s5 == add_param("ws", m.web_seed, s4)
        s6 == add_param("xs", m.source, s5)
        s7 == add_param("kt", m.search_keywords, s6)
        s8 == add_param("as", m.acceptable_source, s7)
    IN  add_param("mt", m.manifest, s8)


(***************************************************************************)
(* The arguments Magnet::new is called with: a head followed by up to      *)
(* MaxFrags fragments joined by `&`.                                       *)
(***************************************************************************)
\* how an input begins: with the scheme prefix, with the prefix twice, or with
\* something that is not the prefix
Heads ==
    { "magnet:?", "magnet:?magnet:?",
      "", "magnet:", "magnet?:", "Magnet:?", "xmagnet:?" }

\* the fragments: every recognized key with a well-formed value, repeated keys
\* with other values, malformed exact topics and lengths, an unknown key, an
\* empty key, fragments without `=`, the empty fragment
Fragments ==
    { "dn=a", "dn=b=c", "dn=",
      "xt=urn:btih:c0", "xt=urn:sha1:d:e", "xt=urn::", "xt=urn:btih", "xt=btih:c0",
      "xl=5", "xl=007", "xl=+5", "xl=-5", "xl=1x", "xl=",
      "xl=18446744073709551615", "xl=18446744073709551616",
      "tr=t", "tr=u", "tr=",
      "kt=k", "ws=w", "xs=s", "as=f", "mt=l",
      "zz=a", "=a", "dn", "" }

\* the fragments fs joined by `&`
RECURSIVE join(_)
join(fs) ==
    IF fs = <<>> THEN ""
    ELSE IF Len(fs) = 1 THEN fs[1]
    ELSE fs[1] \o "&" \o join(Tail(fs))

FragmentLists == UNION { [1..n -> Fragments] : n \in 0..MaxFrags }

Inputs == { h \o join(fs) : h \in Heads, fs \in FragmentLists }

(***************************************************************************)
(* The parser's run: Magnet::new(magnet_str), one action per step of       *)
(* new_no_validation's loop, then to_string and Magnet::new of its output. *)
(***************************************************************************)
Init ==
    /\ pc = "start"
    /\ magnet_str \in Inputs
    /\ params = <<>>
    /\ magnet = Unset
    /\ result = Unset
    /\ builder = Unset
    /\ out = Unset
    /\ reparsed = Unset
    /\ calls = <<>>

\* Magnet::new, the prefix check fails: return Err(MagnetError::NotAMagnetURL)
NewErr ==
    /\ pc = "start"
    /\ ~starts_with(magnet_str, MAGNET_PREFIX)
    /\ result' = Err(NotAMagnetURL)
    /\ pc' = "failed"
    /\ UNCHANGED <<magnet_str, params, magnet, builder, out, reparsed, calls>>

\* Magnet::new, the prefix check passes: new_no_validation up to its loop
NewBegin ==
    /\ pc = "start"
    /\ starts_with(magnet_str, MAGNET_PREFIX)
    /\ magnet' = DefaultMagnet
    /\ params' = split(params_str(magnet_str), "&")
    /\ pc' = "loop"
    /\ UNCHANGED <<magnet_str, result, builder, out, reparsed, calls>>

\* one iteration of `for param in params_str.split('&')`
LoopStep ==
    /\ pc = "loop"
    /\ params # <<>>
    /\ magnet' = dispatch(magnet, Head(params))
    /\ params' = Tail(params)
    /\ UNCHANGED <<pc, magnet_str, result, builder, out, reparsed, calls>>

\* the loop is over: new_no_validation returns magnet, Magnet::new wraps it in Ok
NewReturn ==
    /\ pc = "loop"
    /\ params = <<>>
    /\ result' = Ok(magnet)
    /\ pc' = "have"
    /\ UNCHANGED <<magnet_str, params, magnet, builder, out, reparsed, calls>>

\* magnet.to_string()
Display ==
    /\ pc = "have"
    /\ out' = to_string(magnet)
    /\ pc' = "printed"
    /\ UNCHANGED <<magnet_str, params, magnet, result, builder, reparsed, calls>>

\* Magnet::new(&magnet.to_string())
Reparse ==
    /\ pc = "printed"
    /\ reparsed' = Magnet_new(out)
    /\ pc' = "done"
    /\ UNCHANGED <<magnet_str, params, magnet, result, builder, out, calls>>

Next ==
    \/ NewErr
    \/ NewBegin
    \/ LoopStep
    \/ NewReturn
    \/ Display
    \/ Reparse

Spec == Init /\ [][Next]_vars


(***************************************************************************)
(* MagnetBuilder: new(), the setters, build().                             *)
(***************************************************************************)
\* the texts the setters are called with: a token, a text with `:` and `=` in
\* it, a text with `&` in it
PlainTexts == { "a" }
RawTexts == { "b:c=d", "e&xt=urn:f:g" }
Texts == PlainTexts \cup RawTexts

\* the u64 values length() is called with: 0 and u64::MAX
Lengths == { <<0>>, U64_MAX }

\* the slices add_trackers() is called with
TrackerSlices == UNION { [1..n -> Texts] : n \in 0..MaxTrackers }

TextFields ==
    { "display_name", "hash_type", "hash", "source", "search_keywords",
      "web_seed", "acceptable_source", "manifest" }

\* how many fields and trackers of m hold a text outside PlainTexts
RawCount(m) ==
    Cardinality({ f \in TextFields : m[f].some /\ m[f].val \notin PlainTexts })
    + Cardinality({ i \in 1..Len(m.trackers) : m.trackers[i] \notin PlainTexts })

\* the records the model lets a builder hold
InBounds(m) == Len(m.trackers) <= MaxTrackers /\ RawCount(m) <= MaxRaw

InitBuilder ==
    /\ pc = "builder"
    /\ builder = DefaultMagnet          \* MagnetBuilder::new()
    /\ magnet_str = Unset
    /\ params = <<>>
    /\ magnet = Unset
    /\ result = Unset
    /\ out = Unset
    /\ reparsed = Unset
    /\ calls = <<>>

\* a setter: self.magnet becomes m (whether the call is recorded in calls is
\* for the next-state relation to say)
BuilderSet(m) ==
    /\ pc = "builder"
    /\ InBounds(m)
    /\ builder' = m
    /\ UNCHANGED <<pc, magnet_str, params, magnet, result, out, reparsed>>

Builder_display_name(name) ==
    BuilderSet([builder EXCEPT !.display_name = Some(name)])

Builder_hash_type(hash_type) ==
    BuilderSet([builder EXCEPT !.hash_type = Some(hash_type)])

Builder_hash(hash) ==
    BuilderSet([builder EXCEPT !.hash = Some(hash)])

Builder_length(length) ==
    BuilderSet([builder EXCEPT !.length = Some(length)])

\* source() storing into the other field whose parameter is named `source`
Builder_source_as(source) ==
    BuilderSet([builder EXCEPT !.acceptable_source = Some(source)])

Builder_source(source) ==
    BuilderSet([builder EXCEPT !.source = Some(source)])

Builder_add_tracker(tracker) ==
    BuilderSet([builder EXCEPT !.trackers = Append(@, tracker)])

Builder_add_trackers(trackers) ==
    BuilderSet([builder EXCEPT !.trackers = @ \o trackers])

Builder_search_keywords(keywords) ==
    BuilderSet([builder EXCEPT !.search_keywords = Some(keywords)])

Builder_web_seed(web_seed) ==
    BuilderSet([builder EXCEPT !.web_seed = Some(web_seed)])

Builder_acceptable_source(source) ==
    BuilderSet([builder EXCEPT !.acceptable_source = Some(source)])

Builder_manifest(manifest) ==
    BuilderSet([builder EXCEPT !.manifest = Some(manifest)])

\* build(): the record leaves the builder
Builder_build ==
    /\ pc = "builder"
    /\ magnet' = builder
    /\ pc' = "have"
    /\ UNCHANGED <<magnet_str, params, result, builder, out, reparsed, calls>>

NextBuilder ==
    \/ \E t \in Texts : Builder_display_name(t) /\ UNCHANGED calls
    \/ \E t \in Texts : Builder_hash_type(t) /\ UNCHANGED calls
    \/ \E t \in Texts : Builder_hash(t) /\ UNCHANGED calls
    \/ \E n \in Lengths : Builder_length(n) /\ UNCHANGED calls
    \/ \E t \in Texts : Builder_source(t) /\ UNCHANGED calls
    \/ \E t \in Texts : Builder_add_tracker(t) /\ UNCHANGED calls
    \/ \E ts \in TrackerSlices : Builder_add_trackers(ts) /\ UNCHANGED calls
    \/ \E t \in Texts : Builder_search_keywords(t) /\ UNCHANGED calls
    \/ \E t \in Texts : Builder_web_seed(t) /\ UNCHANGED calls
    \/ \E t \in Texts : Builder_acceptable_source(t) /\ UNCHANGED calls
    \/ \E t \in Texts : Builder_manifest(t) /\ UNCHANGED calls
    \/ Builder_build
    \/ Display
    \/ Reparse

SpecBuilder == InitBuilder /\ [][NextBuilder]_vars

(***************************************************************************)
(* A builder chain with its calls on record: MagnetBuilder::new(), at most *)
(* MaxCalls setter calls, build().                                         *)
(***************************************************************************)
\* the call op(arg) goes on record
Logged(op, arg) ==
    /\ Len(calls) < MaxCalls
    /\ calls' = Append(calls, [op |-> op, arg |-> arg])

NextCalls ==
    \/ \E t \in Texts : Builder_display_name(t) /\ Logged("display_name", t)
    \/ \E t \in Texts : Builder_hash_type(t) /\ Logged("hash_type", t)
    \/ \E t \in Texts : Builder_hash(t) /\ Logged("hash", t)
    \/ \E n \in Lengths : Builder_length(n) /\ Logged("length", n)
    \/ \E t \in Texts : Builder_source(t) /\ Logged("source", t)
    \/ \E t \in Texts : Builder_add_tracker(t) /\ Logged("add_tracker", t)
    \/ \E ts \in TrackerSlices : Builder_add_trackers(ts) /\ Logged("add_trackers", ts)
    \/ \E t \in Texts : Builder_search_keywords(t) /\ Logged("search_keywords", t)
    \/ \E t \in Texts : Builder_web_seed(t) /\ Logged("web_seed", t)
    \/ \E t \in Texts : Builder_acceptable_source(t) /\ Logged("acceptable_source", t)
    \/ \E t \in Texts : Builder_manifest(t) /\ Logged("manifest", t)
    \/ Builder_build

SpecCalls == InitBuilder /\ [][NextCalls]_vars


(***************************************************************************)
(* What the specification says of a text, stated with positions and        *)
(* quantifiers rather than computed the way the code computes it.  The     *)
(* claims below are stated with these.                                     *)
(***************************************************************************)
CharAt(s, i) == SubSeq(s, i, i)

\* the positions of character c in s
Positions(s, c) == { i \in 1..Len(s) : CharAt(s, i) = c }

\* the least element of a non-empty set of numbers
Least(S) == CHOOSE i \in S : \A j \in S : i <= j

\* s begins with the text p
BeginsWith(s, p) ==
    /\ Len(s) >= Len(p)
    /\ \A i \in 1..Len(p) : CharAt(s, i) = CharAt(p, i)

\* s begins with the literal `magnet:?`
HasPrefix(s) == BeginsWith(s, "magnet:?")

\* the remainder of an input: what follows its first eight characters
Rest(s) == SubSeq(s, 9, Len(s))

\* the `&`-separated fragments of t, left to right
FragmentsOf(t) ==
    LET amps == Positions(t, "&")
        n == Cardinality(amps)
        nth(k) == CHOOSE i \in amps : Cardinality({ j \in amps : j < i }) = k - 1
    IN  [ k \in 1..(n + 1) |->
            SubSeq(t, IF k = 1 THEN 1 ELSE nth(k - 1) + 1,
                      IF k = n + 1 THEN Len(t) ELSE nth(k) - 1) ]

\* the fragments of an input that has the prefix
InputFragments(s) == FragmentsOf(Rest(s))

\* a fragment has a key when it has a `=`: the key is the text before the first
\* `=`, the value the text after it
HasKey(f) == Positions(f, "=") # {}
KeyOf(f) == SubSeq(f, 1, Least(Positions(f, "=")) - 1)
ValueOf(f) == SubSeq(f, Least(Positions(f, "=")) + 1, Len(f))
IsParam(f, key) == HasKey(f) /\ KeyOf(f) = key

\* an exact topic urn:<hash_type>:<hash>: `urn:` and a further `:`
WellFormedXt(v) ==
    /\ BeginsWith(v, "urn:")
    /\ \E i \in 5..Len(v) : CharAt(v, i) = ":"
XtColon(v) == Least({ i \in 5..Len(v) : CharAt(v, i) = ":" })
XtHashType(v) == SubSeq(v, 5, XtColon(v) - 1)
XtHash(v) == SubSeq(v, XtColon(v) + 1, Len(v))

\* a decimal numeral of an unsigned 64-bit integer, as str::parse::<u64> reads
\* one: an optional `+`, then digits, the number at most 2^64-1
IsDigit(c) == \E d \in 1..10 : CharAt("0123456789", d) = c
DigitOf(c) == (CHOOSE d \in 1..10 : CharAt("0123456789", d) = c) - 1
Unsigned(v) == IF Len(v) > 0 /\ CharAt(v, 1) = "+" THEN SubSeq(v, 2, Len(v)) ELSE v
\* the numeral without its leading zeros
Significant(d) ==
    LET nz == { i \in 1..Len(d) : CharAt(d, i) # "0" }
    IN  IF nz = {} THEN "0" ELSE SubSeq(d, Least(nz), Len(d))
AtMostU64Max(d) ==
    LET max == "18446744073709551615"
    IN  \/ Len(d) < Len(max)
        \/ /\ Len(d) = Len(max)
           /\ \/ d = max
              \/ \E i \in 1..Len(d) :
                    /\ SubSeq(d, 1, i - 1) = SubSeq(max, 1, i - 1)
                    /\ DigitOf(CharAt(d, i)) < DigitOf(CharAt(max, i))
IsU64(v) ==
    /\ Len(Unsigned(v)) > 0
    /\ \A i \in 1..Len(Unsigned(v)) : IsDigit(CharAt(Unsigned(v), i))
    /\ AtMostU64Max(Significant(Unsigned(v)))
\* the number a numeral denotes, as the tuple of its digits
U64Of(v) ==
    LET d == Significant(Unsigned(v))
    IN  [ i \in 1..Len(d) |-> DigitOf(CharAt(d, i)) ]

Keys == { "dn", "xt", "xl", "tr", "kt", "ws", "xs", "as", "mt" }

\* a recognized well-formed fragment: one the parser takes a value from
Recognized(f) ==
    /\ HasKey(f)
    /\ KeyOf(f) \in Keys
    /\ KeyOf(f) = "xt" => WellFormedXt(ValueOf(f))
    /\ KeyOf(f) = "xl" => IsU64(ValueOf(f))

\* the positions in fs of the fragments with key `key`
Occurrences(fs, key) == { i \in 1..Len(fs) : IsParam(fs[i], key) }

\* the values of the fragments of fs with key `key`, left to right
ValuesOf(fs, key) ==
    LET occ == Occurrences(fs, key)
        nth(k) == CHOOSE i \in occ : Cardinality({ j \in occ : j < i }) = k - 1
    IN  [ k \in 1..Cardinality(occ) |-> ValueOf(fs[nth(k)]) ]

\* the parse of magnet_str has returned
Returned == pc \in { "have", "printed", "done" }

\* to_string has returned
Printed == pc \in { "printed", "done" }


\* the remainder of the input does not begin with the prefix a second time
SinglePrefix == HasPrefix(magnet_str) /\ ~HasPrefix(Rest(magnet_str))

(***************************************************************************)
(* C2.  Prefix rejection: for every input that does not start with the     *)
(* literal `magnet:?`, Magnet::new returns Err(NotAMagnetURL) and produces *)
(* no record.  (Spec)                                                      *)
(***************************************************************************)
C2_PrefixRejection ==
    (pc # "start" /\ ~HasPrefix(magnet_str)) =>
        /\ pc = "failed"
        /\ result = Err(NotAMagnetURL)
        /\ magnet = Unset

\* an input that holds the prefix, but not at its start, was rejected
C2_Witness ==
    /\ pc = "failed"
    /\ magnet_str = "xmagnet:?dn=a&tr=t"
    /\ result = Err(NotAMagnetURL)

(***************************************************************************)
(* C3.  Totality after the prefix: for every input that starts with        *)
(* `magnet:?`, Magnet::new returns Ok whatever the remainder is; when the  *)
(* remainder holds no recognized well-formed fragment the result is the    *)
(* all-default record.  (Spec)                                             *)
(***************************************************************************)
C3_Totality ==
    (pc # "start" /\ HasPrefix(magnet_str)) =>
        /\ pc # "failed"
        /\ Returned =>
            /\ result.ok
            /\ (\A i \in DOMAIN InputFragments(magnet_str) :
                    ~Recognized(InputFragments(magnet_str)[i]))
                => result.val = DefaultMagnet

\* C3 on the inputs whose remainder does not begin with the prefix again
C3_TotalitySinglePrefix == SinglePrefix => C3_Totality

(***************************************************************************)
(* C4.  Tracker order preservation: for every input with the prefix, the   *)
(* parsed trackers are the values of the `tr` fragments in left-to-right   *)
(* input order, duplicates kept, nothing reordered or dropped; to_string   *)
(* then emits one `&tr=<value>` clause per tracker in that same order.     *)
(* (Spec)                                                                  *)
(***************************************************************************)
C4_TrackerOrder ==
    (Returned /\ HasPrefix(magnet_str)) =>
        /\ result.val.trackers = ValuesOf(InputFragments(magnet_str), "tr")
        /\ Printed => ValuesOf(FragmentsOf(Rest(out)), "tr") = magnet.trackers

\* C4 on the inputs whose remainder does not begin with the prefix again
C4_TrackerOrderSinglePrefix == SinglePrefix => C4_TrackerOrder

(***************************************************************************)
(* C9.  The scheme prefix is stripped exactly once: for an input           *)
(* `magnet:?` + rest, the parsed record is the result of splitting rest on *)
(* `&` and dispatching each fragment by the text before its first `=`; for *)
(* `magnet:?magnet:?dn=x` the first fragment's key is `magnet:?dn`, the    *)
(* fragment is ignored and display_name stays absent.  (Spec)              *)
(***************************************************************************)
C9_StrippedOnce ==
    (Returned /\ HasPrefix(magnet_str)) =>
        /\ result = Ok(dispatch_all(DefaultMagnet, InputFragments(magnet_str)))
        /\ magnet_str = "magnet:?magnet:?dn=a" => result.val.display_name = None

\* C9 on the inputs whose remainder does not begin with the prefix again
C9_StrippedOnceSinglePrefix == SinglePrefix => C9_StrippedOnce


(***************************************************************************)
(* C7.  Re-parse stability: for every input s that starts with `magnet:?`, *)
(* with M = Magnet::new(s), Magnet::new(M.to_string()) succeeds and equals *)
(* M, whatever the order, repetition or malformation of the fragments of   *)
(* s.  (Spec)                                                              *)
(***************************************************************************)
C7_ReparseStable ==
    (pc = "done" /\ HasPrefix(magnet_str)) =>
        /\ result.ok
        /\ reparsed = Ok(result.val)

\* an input with its fragments out of canonical order and a numeral with
\* leading zeros: the output is canonical and parses to the same record
C7_Witness ==
    /\ pc = "done"
    /\ magnet_str = "magnet:?xl=007&xt=urn:sha1:d:e"
    /\ out = "magnet:?xt=urn:sha1:d:e&xl=7"
    /\ reparsed = result
    /\ result.val.hash = Some("d:e")

(***************************************************************************)
(* C10.  Malformed exact-topic: an `xt` fragment whose value does not      *)
(* start with `urn:`, or has no further `:` after `urn:`, assigns neither  *)
(* hash_type nor hash and does not fail the parse; a well-formed one       *)
(* splits the text after `urn:` on its first `:` only, so hash_type never  *)
(* contains `:` and every later `:` stays inside hash.  (Spec)             *)
(***************************************************************************)
C10_Step ==
    (pc = "loop" /\ params # <<>> /\ IsParam(Head(params), "xt")) =>
        LET v == ValueOf(Head(params))
        IN  /\ pc' = "loop"
            /\ IF WellFormedXt(v)
               THEN /\ magnet'.hash_type = Some(XtHashType(v))
                    /\ magnet'.hash = Some(XtHash(v))
                    /\ Positions(magnet'.hash_type.val, ":") = {}
                    /\ v = "urn:" \o magnet'.hash_type.val \o ":" \o magnet'.hash.val
               ELSE /\ magnet'.hash_type = magnet.hash_type
                    /\ magnet'.hash = magnet.hash

\* C10: every step that dispatches an xt fragment leaves hash_type and hash
\* alone when the value is malformed, and splits a well-formed value on the
\* first `:` after `urn:`
C10_MalformedXt == [][C10_Step]_vars

\* a well-formed exact topic with a second `:`, then one without a further `:`
C10_Witness ==
    /\ pc = "have"
    /\ magnet_str = "magnet:?xt=urn:sha1:d:e&xt=urn:btih"
    /\ result.val.hash_type = Some("sha1")
    /\ result.val.hash = Some("d:e")

(***************************************************************************)
(* C5.  Last-value-wins: for every singular key (dn, xt, xl, kt, ws, xs,   *)
(* as, mt), when the key appears in more than one fragment of the input,   *)
(* each occurrence overwrites the previous value and the final occurrence  *)
(* in left-to-right order determines the stored value of the corresponding *)
(* field(s); only `tr` accumulates.  (Spec)                                *)
(***************************************************************************)
SingularKeys == Keys \ { "tr" }

\* the fields of m that key stands for hold what a fragment key=v stores
StoredFrom(m, key, v) ==
    CASE key = "dn" -> m.display_name = Some(v)
      [] key = "kt" -> m.search_keywords = Some(v)
      [] key = "ws" -> m.web_seed = Some(v)
      [] key = "xs" -> m.source = Some(v)
      [] key = "as" -> m.acceptable_source = Some(v)
      [] key = "mt" -> m.manifest = Some(v)
      [] key = "xl" -> m.length = (IF IsU64(v) THEN Some(U64Of(v)) ELSE None)
      [] key = "xt" -> IF WellFormedXt(v)
                       THEN m.hash_type = Some(XtHashType(v)) /\ m.hash = Some(XtHash(v))
                       ELSE m.hash_type = None /\ m.hash = None

\* the greatest element of a non-empty set of numbers
Greatest(S) == CHOOSE i \in S : \A j \in S : j <= i

\* every `tr` value of fs is kept, in order, at the end of ts
Accumulated(ts, fs) ==
    LET vs == ValuesOf(fs, "tr")
    IN  /\ Len(vs) <= Len(ts)
        /\ SubSeq(ts, Len(ts) - Len(vs) + 1, Len(ts)) = vs

\* C5 as stated: the final occurrence of a repeated singular key, whatever its
\* value, determines what is stored
C5_LastValueWins ==
    (Returned /\ HasPrefix(magnet_str)) =>
        LET fs == InputFragments(magnet_str)
        IN  /\ \A key \in SingularKeys :
                Cardinality(Occurrences(fs, key)) > 1 =>
                    StoredFrom(result.val, key, ValueOf(fs[Greatest(Occurrences(fs, key))]))
            /\ Accumulated(result.val.trackers, fs)

\* the occurrences of key in fs that the parser takes a value from
WellFormedOccurrences(fs, key) ==
    { i \in Occurrences(fs, key) : Recognized(fs[i]) }

\* C5 as amended: the final well-formed occurrence of a repeated singular key
\* determines what is stored
C5_LastWellFormedWins ==
    (Returned /\ HasPrefix(magnet_str)) =>
        LET fs == InputFragments(magnet_str)
        IN  /\ \A key \in SingularKeys :
                (/\ Cardinality(Occurrences(fs, key)) > 1
                 /\ WellFormedOccurrences(fs, key) # {}) =>
                    StoredFrom(result.val, key,
                               ValueOf(fs[Greatest(WellFormedOccurrences(fs, key))]))
            /\ Accumulated(result.val.trackers, fs)

\* a length followed by a numeral that does not parse: the length stays
C5_Witness ==
    /\ Returned
    /\ magnet_str = "magnet:?xl=5&xl=1x"
    /\ result.val.length = Some(<<5>>)


(***************************************************************************)
(* Records, as the claims about to_string speak of them.                   *)
(***************************************************************************)
\* every singular field is present and there is a tracker
AllPresent(m) ==
    /\ \A f \in TextFields : m[f].some
    /\ m.length.some
    /\ m.trackers # <<>>

\* no text of m holds a `&`
NoAmpersand(m) ==
    /\ \A f \in TextFields : m[f].some => Positions(m[f].val, "&") = {}
    /\ \A i \in 1..Len(m.trackers) : Positions(m.trackers[i], "&") = {}

\* the texts of ss, one after the other
RECURSIVE Cat(_)
Cat(ss) == IF ss = <<>> THEN "" ELSE Head(ss) \o Cat(Tail(ss))

\* the decimal numeral of a u64
Decimal(ds) == Cat([ i \in 1..Len(ds) |-> CharAt("0123456789", ds[i] + 1) ])

\* the clause `&<name>=<value>` of a present field, nothing for an absent one
Clause(name, field) == IF field.some THEN "&" \o name \o "=" \o field.val ELSE ""

\* the canonical form of m
Canonical(m) ==
    Cat(<< "magnet:?",
           IF m.hash.some
           THEN "xt=urn:" \o (IF m.hash_type.some THEN m.hash_type.val ELSE "")
                          \o ":" \o m.hash.val
           ELSE "",
           Clause("dn", m.display_name),
           IF m.length.some THEN "&xl=" \o Decimal(m.length.val) ELSE "",
           Cat([ i \in 1..Len(m.trackers) |-> "&tr=" \o m.trackers[i] ]),
           Clause("ws", m.web_seed),
           Clause("xs", m.source),
           Clause("kt", m.search_keywords),
           Clause("as", m.acceptable_source),
           Clause("mt", m.manifest) >>)

\* an `xt=urn:` clause is among the fragments of the output t
HasXtClause(t) ==
    \E i \in DOMAIN FragmentsOf(Rest(t)) :
        BeginsWith(FragmentsOf(Rest(t))[i], "xt=urn:")

(***************************************************************************)
(* C1.  Round-trip: for every record R in which all singular fields are    *)
(* present and trackers is non-empty, Magnet::new(R.to_string()) succeeds  *)
(* and returns a record equal to R, for any text values the builder        *)
(* accepts.  (SpecBuilder)                                                 *)
(***************************************************************************)
\* C1 as stated: a fully populated record with any texts comes back equal
C1_RoundTrip ==
    (pc = "done" /\ AllPresent(magnet)) => reparsed = Ok(magnet)

\* C1 as amended: a fully populated record comes back equal when none of its
\* texts holds a `&` and its hash_type holds no `:`
C1_RoundTripOfTokens ==
    (/\ pc = "done"
     /\ AllPresent(magnet)
     /\ NoAmpersand(magnet)
     /\ Positions(magnet.hash_type.val, ":") = {}) => reparsed = Ok(magnet)

\* a fully populated record with `:` and `=` inside a value and the greatest
\* length came back equal
C1_Witness ==
    /\ pc = "done"
    /\ AllPresent(magnet)
    /\ magnet.display_name = Some("b:c=d")
    /\ magnet.length = Some(U64_MAX)
    /\ reparsed = Ok(magnet)

(***************************************************************************)
(* C6.  Canonical emission: for every record, to_string returns exactly    *)
(* `magnet:?` followed, in this fixed order, by `xt=urn:<hash_type>:<hash>`*)
(* if hash is present (hash_type rendered as empty text when absent),      *)
(* `&dn=` if display_name present, `&xl=<decimal>` if length present, one   *)
(* `&tr=` per tracker in sequence order, then `&ws=`, `&xs=`, `&kt=`,      *)
(* `&as=`, `&mt=` for each present field; an absent field contributes      *)
(* nothing, so a record with only hash_type and hash set serializes to     *)
(* exactly `magnet:?xt=urn:<type>:<hash>`.  (SpecBuilder)                  *)
(***************************************************************************)
C6_CanonicalEmission ==
    Printed =>
        /\ out = Canonical(magnet)
        /\ (\E t, h \in Texts :
                magnet = [DefaultMagnet EXCEPT !.hash_type = Some(t), !.hash = Some(h)])
            => out = "magnet:?xt=urn:" \o magnet.hash_type.val \o ":" \o magnet.hash.val

\* a fully populated record with two trackers, printed clause by clause
C6_Witness ==
    /\ Printed
    /\ AllPresent(magnet)
    /\ out = "magnet:?xt=urn:a:a&dn=a&xl=18446744073709551615&tr=a&tr=b:c=d&ws=a&xs=a&kt=a&as=a&mt=a"

\* a record with only hash_type and hash set, printed
C6_WitnessOnlyHash ==
    /\ Printed
    /\ magnet = [DefaultMagnet EXCEPT !.hash_type = Some("a"), !.hash = Some("b:c=d")]
    /\ out = "magnet:?xt=urn:a:b:c=d"

(***************************************************************************)
(* C8.  Hash pairing in serialization: the `xt=urn:` clause appears in     *)
(* to_string's output if and only if hash is present; for a record with    *)
(* hash_type present and hash absent the output contains no xt clause and  *)
(* the hash_type text does not occur in it as a clause, so re-parsing that *)
(* output yields hash_type absent.  (SpecBuilder)                          *)
(***************************************************************************)
HashPairing ==
    /\ HasXtClause(out) <=> magnet.hash.some
    /\ (pc = "done" /\ magnet.hash_type.some /\ ~magnet.hash.some) =>
        /\ ~HasXtClause(out)
        /\ reparsed.ok
        /\ reparsed.val.hash_type = None
        /\ reparsed.val.hash = None

\* C8 as stated: for every record, an xt clause is in the output exactly when
\* hash is present, and a lone hash_type does not come back
C8_HashPairing == Printed => HashPairing

\* C8 as amended: the same of the records none of whose texts holds a `&`
C8_HashPairingOfTokens == (Printed /\ NoAmpersand(magnet)) => HashPairing

\* a record with a hash_type and other fields but no hash: the hash_type is not
\* printed and does not come back
C8_Witness ==
    /\ pc = "done"
    /\ magnet.hash_type = Some("b:c=d")
    /\ ~magnet.hash.some
    /\ magnet.display_name.some
    /\ magnet.trackers # <<>>
    /\ reparsed.val.hash_type = None
    /\ reparsed.val.display_name = magnet.display_name

(***************************************************************************)
(* C11.  Bad length: an `xl` fragment whose value is not parseable as an   *)
(* unsigned 64-bit integer (non-digits, empty, negative, or greater than   *)
(* 2^64-1) is silently ignored, and the parse still succeeds with every    *)
(* other field set as if that fragment were not there.  (Spec)             *)
(***************************************************************************)
\* the step of the loop dispatches an xl fragment whose value is no u64
BadLengthStep ==
    /\ pc = "loop"
    /\ params # <<>>
    /\ IsParam(Head(params), "xl")
    /\ ~IsU64(ValueOf(Head(params)))

\* C11 as stated: the fragment leaves length absent and the other fields as
\* they were, and the parse goes on
C11_StepLengthAbsent ==
    BadLengthStep =>
        /\ pc' = "loop"
        /\ magnet'.length = None
        /\ magnet' = [magnet EXCEPT !.length = None]

\* C11 as stated: every step that dispatches an xl fragment with an
\* unparseable value ends with length absent and nothing else changed
C11_BadLengthAbsent == [][C11_StepLengthAbsent]_vars

\* C11 amended: the fragment leaves the whole record, length included, as it
\* was, and the parse goes on
C11_StepIgnored ==
    BadLengthStep =>
        /\ pc' = "loop"
        /\ magnet' = magnet

\* C11: every step that dispatches an xl fragment with an unparseable value
\* leaves the record as it was, and the loop goes on
C11_BadLengthIgnored == [][C11_StepIgnored]_vars

\* a length one beyond 2^64-1 was skipped and the fragment after it was stored
C11_Witness ==
    /\ pc = "have"
    /\ magnet_str = "magnet:?xl=18446744073709551616&dn=a"
    /\ result.val.length = None
    /\ result.val.display_name = Some("a")

(***************************************************************************)
(* C12.  Ignored fragments leave the record unchanged: inserting, at any   *)
(* position among the `&`-separated fragments of an input with the prefix, *)
(* a fragment with an unrecognized key, a fragment with no `=`, or an      *)
(* empty fragment yields a parsed record equal to the one parsed without   *)
(* that fragment.  (Spec)                                                  *)
(***************************************************************************)
\* a fragment the parser is to ignore: no `=` (the empty fragment is one), or
\* a key that is none of the nine
Ignorable(f) == ~HasKey(f) \/ KeyOf(f) \notin Keys

\* fs without its i-th fragment
Without(fs, i) ==
    [ k \in 1..(Len(fs) - 1) |-> IF k < i THEN fs[k] ELSE fs[k + 1] ]

\* the input whose fragments are fs
InputOf(fs) == "magnet:?" \o join(fs)

\* C12: the record parsed from the input equals the record parsed from the
\* input without any one of its ignorable fragments
C12_IgnoredFragments ==
    (Returned /\ HasPrefix(magnet_str)) =>
        LET fs == InputFragments(magnet_str)
        IN  \A i \in 1..Len(fs) :
                (Len(fs) >= 2 /\ Ignorable(fs[i])) =>
                    result = Magnet_new(InputOf(Without(fs, i)))

\* C12 holds of the inputs whose remainder does not begin with the prefix again
C12_IgnoredFragmentsSinglePrefix ==
    SinglePrefix => C12_IgnoredFragments

\* an ignorable fragment stood between two stored ones
C12_Witness ==
    /\ pc = "have"
    /\ magnet_str = "magnet:?zz=a&dn=a"
    /\ result = Magnet_new("magnet:?dn=a")

(***************************************************************************)
(* C13.  Builder frame: starting from MagnetBuilder::new() (all singular   *)
(* fields absent, trackers empty), each builder operation sets exactly one *)
(* field or appends tracker(s) and leaves every other field unchanged;     *)
(* after any sequence of operations followed by build(), each singular     *)
(* field equals the argument of the last call that set it (absent if never *)
(* called) and trackers equals the arguments of the tracker-adding calls   *)
(* in call order.  (SpecCalls)                                             *)
(***************************************************************************)
SingularFields == TextFields \cup { "length" }
Fields == SingularFields \cup { "trackers" }

\* the argument of the last call of setter op on record, if there is one
LastArg(op) ==
    LET at == { i \in 1..Len(calls) : calls[i].op = op }
    IN  IF at = {} THEN None ELSE Some(calls[Greatest(at)].arg)

\* the trackers the tracker-adding calls of cs were given, in call order
RECURSIVE TrackersGiven(_)
TrackersGiven(cs) ==
    IF cs = <<>> THEN <<>>
    ELSE LET c == Head(cs)
         IN  (CASE c.op = "add_tracker" -> <<c.arg>>
                [] c.op = "add_trackers" -> c.arg
                [] OTHER -> <<>>) \o TrackersGiven(Tail(cs))

\* the record m is the one the calls on record describe
AsCalled(m) ==
    /\ \A f \in SingularFields : m[f] = LastArg(f)
    /\ m.trackers = TrackersGiven(calls)

\* a step that records a call
CallStep == calls' # calls
LastCall == calls'[Len(calls')]

\* every field but f is left as it was
OthersUnchanged(f) == \A g \in Fields \ { f } : builder'[g] = builder[g]

\* a setter of a singular field sets that field to its argument, and no other
SetsOneField ==
    (CallStep /\ LastCall.op \in SingularFields) =>
        /\ builder'[LastCall.op] = Some(LastCall.arg)
        /\ OthersUnchanged(LastCall.op)

\* a tracker-adding call appends exactly one tracker, and touches no other field
AppendsOneTracker ==
    (CallStep /\ LastCall.op \in { "add_tracker", "add_trackers" }) =>
        /\ \E t \in Texts : builder'.trackers = Append(builder.trackers, t)
        /\ OthersUnchanged("trackers")

\* add_tracker appends its argument, add_trackers the trackers of its slice in
\* the order of the slice; neither touches another field
AppendsTrackers ==
    (CallStep /\ LastCall.op \in { "add_tracker", "add_trackers" }) =>
        /\ builder'.trackers = builder.trackers \o
              (IF LastCall.op = "add_tracker" THEN <<LastCall.arg>> ELSE LastCall.arg)
        /\ OthersUnchanged("trackers")

\* the builder starts all-default, and what build() hands over is the record
\* the calls describe
BuiltAsCalled ==
    /\ (pc = "builder" /\ calls = <<>>) => builder = DefaultMagnet
    /\ pc = "have" => AsCalled(magnet)

\* C13 as stated: every operation sets exactly one field or appends exactly
\* one tracker, and the built record holds the last arguments and the trackers
\* in call order
C13_BuilderFrame ==
    []BuiltAsCalled /\ [][SetsOneField /\ AppendsOneTracker]_vars

\* C13 amended: every operation sets exactly one field, appends one tracker
\* (add_tracker) or appends the trackers of its slice (add_trackers), and the
\* built record holds the last arguments and the trackers in call order
C13_BuilderFrameOfSlices ==
    []BuiltAsCalled /\ [][SetsOneField /\ AppendsTrackers]_vars

\* display_name was set twice, and the built record holds the second argument
C13_Witness ==
    /\ pc = "have"
    /\ Len(calls) = 2
    /\ calls[1].op = "display_name" /\ calls[1].arg = "a"
    /\ calls[2].op = "display_name" /\ calls[2].arg = "b:c=d"
    /\ magnet = [DefaultMagnet EXCEPT !.display_name = Some("b:c=d")]

\* a slice of two trackers was added and then a field set: the trackers stand
\* in the order of the slice
C13_WitnessSlice ==
    /\ pc = "have"
    /\ Len(calls) = 2
    /\ calls[1].op = "add_trackers" /\ calls[1].arg = <<"b:c=d", "a">>
    /\ calls[2].op = "hash" /\ calls[2].arg = "a"
    /\ magnet.trackers = <<"b:c=d", "a">>
    /\ magnet.hash = Some("a")

(***************************************************************************)
(* C14.  Parsed records keep hash and hash_type paired: after the parser   *)
(* has processed any number of fragments of any input with the prefix,     *)
(* hash is present if and only if hash_type is present, and both come from *)
(* the same `xt` fragment (the last well-formed one seen so far); a hash   *)
(* without a hash_type, or the reverse, can only arise through the         *)
(* builder.  (Spec)                                                        *)
(***************************************************************************)
\* the record has both hash and hash_type, or neither
Paired(m) == m.hash.some <=> m.hash_type.some

\* the parser's record, while the loop runs and once it is returned, and the
\* record of a reparse, are paired
ParsedPaired ==
    /\ (pc = "loop" \/ Returned) => Paired(magnet)
    /\ Returned => Paired(result.val)
    /\ (pc = "done" /\ reparsed.ok) => Paired(reparsed.val)

\* the loop starts with neither hash nor hash_type
StartsWithout ==
    (pc = "start" /\ pc' = "loop") =>
        magnet'.hash = None /\ magnet'.hash_type = None

\* a step of the loop: a well-formed xt fragment sets both from its own value,
\* any other fragment leaves both as they were
PairFromOneFragment ==
    (pc = "loop" /\ params # <<>>) =>
        LET f == Head(params)
        IN  IF IsParam(f, "xt") /\ WellFormedXt(ValueOf(f))
            THEN /\ magnet'.hash_type = Some(XtHashType(ValueOf(f)))
                 /\ magnet'.hash = Some(XtHash(ValueOf(f)))
            ELSE /\ magnet'.hash_type = magnet.hash_type
                 /\ magnet'.hash = magnet.hash

\* C14: at every point of a parse hash is present exactly when hash_type is,
\* and the two are those of the last well-formed xt fragment the loop has
\* dispatched
C14_HashPaired ==
    []ParsedPaired /\ [][StartsWithout /\ PairFromOneFragment]_vars

\* the loop has dispatched a well-formed xt fragment and then a malformed one:
\* the pair is that of the well-formed one
C14_Witness ==
    /\ pc = "loop"
    /\ magnet_str = "magnet:?xt=urn:sha1:d:e&xt=urn:btih"
    /\ params = <<>>
    /\ magnet.hash_type = Some("sha1")
    /\ magnet.hash = Some("d:e")

\* through the builder a record has a hash_type and no hash
C14_WitnessBuilder ==
    /\ pc = "have"
    /\ builder # Unset
    /\ ~Paired(magnet)

=============================================================================
